---- MODULE Spec2Model ----
(***************************************************************************)
(* Shared-expense ledger of accountingbot (src/src/db.py).                 *)
(*                                                                         *)
(* The state is the content of the three relations of the SQLite store:    *)
(* orders, line_items and participants.  Every function of db.py that    *)
(* writes the store is one action: it runs inside `with connect() as       *)
(* conn`, which commits when the block ends normally and rolls back when   *)
(* it raises, so a call that raises leaves the three relations as they     *)
(* were.  bot.py calls these functions synchronously from its handlers.    *)
(*                                                                         *)
(* Columns that no statement of db.py reads back into a decision or a      *)
(* computation (vendor, note, name, created_at, created_by) are left out.  *)
(* Every error of db.py is a ValueError; `last.res` names which raise      *)
(* statement was reached.  discount_value, a float in the source, is the   *)
(* rational <<numerator, denominator>>; for the values used here Python's  *)
(* int(round(subtotal * value)) equals the exact round-half-to-even.       *)
(***************************************************************************)
EXTENDS Integers, Sequences, FiniteSets, TLC

\* ---------- Bounds ----------
MaxOrders == 1
MaxItems == 2
MaxTime == 1
MaxPricingItems == 3

\* ---------- Input domains ----------
Users == {"A", "B"}
\* SQL NULL / Python None, and a present value
NULL == <<>>
Some(v) == <<v>>
OrderIds == 1..(MaxOrders + 1)
Creators == {"A"}
PayerArgs == {NULL, Some("B")}
PaidToArgs == {NULL, Some("B")}
UnitPrices == {-1, 5}
Qtys == {0, 1}
\* a percent argument is the rational <<numerator, denominator>>
Percents == {<<1, 2>>, <<11, 10>>, <<-1, 10>>}
Adjustments == {-7}
\* the connections (one per caller of db.py) that may be open at the same time
Connections == {1, 2}

VARIABLES orders, line_items, participants, now, last, pending

vars == <<orders, line_items, participants, now, last, pending>>

\* ---------- Arithmetic ----------
Max(a, b) == IF a >= b THEN a ELSE b

\* rounding with ties away from zero (round-half-up)
RoundHalfUp(n, d) ==
    LET q == n \div d
        r == n % d
    IN  IF 2 * r < d THEN q ELSE q + 1

\* Python round() of the non-negative rational n/d: nearest integer, ties to even
RoundHalfEven(n, d) ==
    LET q == n \div d
        r == n % d
    IN  IF 2 * r < d THEN q
        ELSE IF 2 * r > d THEN q + 1
        ELSE IF q % 2 = 0 THEN q ELSE q + 1

\* ---------- Recalculation (recalc_order_conn) ----------
\* SELECT DISTINCT user_id FROM line_items WHERE order_id=?
Owners(items, order_id) ==
    {items[i].user_id : i \in {j \in DOMAIN items : items[j].order_id = order_id}}

RECURSIVE SumLines(_, _, _, _)
SumLines(items, order_id, user_id, n) ==
    IF n = 0 THEN 0
    ELSE SumLines(items, order_id, user_id, n - 1)
         + (IF items[n].order_id = order_id /\ items[n].user_id = user_id
            THEN items[n].unit_price * items[n].qty ELSE 0)

\* a SELECT without SUM(): the line total of the user's first item only
Subtotal_nosum(items, order_id, user_id) ==
    LET mine == {j \in DOMAIN items :
                    items[j].order_id = order_id /\ items[j].user_id = user_id}
    IN  IF mine = {} THEN 0
        ELSE LET f == CHOOSE j \in mine : \A k \in mine : j <= k
             IN  items[f].unit_price * items[f].qty

\* SUM(unit_price * qty) ... WHERE order_id=? GROUP BY user_id
Subtotal(items, order_id, user_id) == SumLines(items, order_id, user_id, Len(items))

calc_total(order, subtotal) ==
    IF order.discount_type = "none" THEN subtotal
    ELSE IF order.discount_type = "percent"
         THEN RoundHalfEven(subtotal * order.discount_value[1], order.discount_value[2])
    ELSE subtotal

\* the adjustment added before the discount is applied
TotalDue_adjustfirst(order, subtotal) ==
    Max(0, calc_total(order, subtotal + order.adjustment))

\* the total without the floor of zero
TotalDue_noclamp(order, subtotal) == calc_total(order, subtotal) + order.adjustment

TotalDue(order, subtotal) == Max(0, calc_total(order, subtotal) + order.adjustment)

NewRow(total_due) ==
    [total_due |-> total_due, paid |-> FALSE, paid_at |-> NULL, paid_to |-> NULL]

\* INSERT OR IGNORE: an existing row keeps its old total_due
UpsertRow_ignore(parts, key, total_due) ==
    IF key \in DOMAIN parts THEN parts[key] ELSE NewRow(total_due)

\* INSERT OR REPLACE: an existing row loses its payment fields
UpsertRow_replace(parts, key, total_due) == NewRow(total_due)

\* DO UPDATE SET total_due = total_due + excluded.total_due
UpsertRow_accumulate(parts, key, total_due) ==
    IF key \in DOMAIN parts
    THEN [parts[key] EXCEPT !.total_due = @ + total_due]
    ELSE NewRow(total_due)

\* DO UPDATE SET total_due=excluded.total_due, paid=0
UpsertRow_resetpaid(parts, key, total_due) ==
    IF key \in DOMAIN parts
    THEN [parts[key] EXCEPT !.total_due = total_due, !.paid = FALSE]
    ELSE NewRow(total_due)

\* INSERT ... VALUES (?, ?, ?, 0, NULL, NULL)
\* ON CONFLICT(order_id, user_id) DO UPDATE SET total_due=excluded.total_due
UpsertRow(parts, key, total_due) ==
    IF key \in DOMAIN parts
    THEN [parts[key] EXCEPT !.total_due = total_due]
    ELSE NewRow(total_due)

\* a plain UPDATE instead of the upsert: no row is ever inserted
UpsertAll_updateonly(ords, items, parts, order_id) ==
    [key \in DOMAIN parts |->
        IF key[1] = order_id /\ key[2] \in Owners(items, order_id)
        THEN [parts[key] EXCEPT !.total_due =
                TotalDue(ords[order_id], Subtotal(items, order_id, key[2]))]
        ELSE parts[key]]

\* for uid, subtotal in subtotals.items(): upsert
UpsertAll(ords, items, parts, order_id) ==
    LET keys == {<<order_id, u>> : u \in Owners(items, order_id)}
    IN  [key \in (DOMAIN parts) \cup keys |->
            IF key \in keys
            THEN UpsertRow(parts, key,
                           TotalDue(ords[order_id], Subtotal(items, order_id, key[2])))
            ELSE parts[key]]

\* recomputation without the DELETE
PurgeOrphans_none(parts, items, order_id) == parts

\* a DELETE without `order_id=?`: purges rows of every order
PurgeOrphans_allorders(parts, items, order_id) ==
    LET keep == {key \in DOMAIN parts : key[2] \in Owners(items, order_id)}
    IN  [key \in keep |-> parts[key]]

\* a DELETE that also purges the rows of users who owe nothing
PurgeOrphans_zero(parts, items, order_id) ==
    LET keep == {key \in DOMAIN parts :
                    \/ key[1] # order_id
                    \/ (key[2] \in Owners(items, order_id) /\ parts[key].total_due > 0)}
    IN  [key \in keep |-> parts[key]]

\* DELETE FROM participants WHERE order_id=? AND user_id NOT IN (owners)
PurgeOrphans(parts, items, order_id) ==
    LET keep == {key \in DOMAIN parts :
                    key[1] # order_id \/ key[2] \in Owners(items, order_id)}
    IN  [key \in keep |-> parts[key]]

\* recomputation without the `status == "cancelled"` return
recalc_order_conn_nofreeze(ords, items, parts, order_id) ==
    PurgeOrphans(UpsertAll(ords, items, parts, order_id), items, order_id)

\* the participants relation after recalc_order_conn(conn, order_id), for an
\* order that exists (the caller handles the `order is None` raise)
recalc_order_conn(ords, items, parts, order_id) ==
    IF ords[order_id].status = "cancelled" THEN parts
    ELSE PurgeOrphans(UpsertAll(ords, items, parts, order_id), items, order_id)

\* ---------- Helpers ----------
\* a guard that rejects cancelled orders only
_ensure_order_editable_unlocked(ords, order_id) ==
    IF order_id \notin DOMAIN ords THEN "not_found"
    ELSE IF ords[order_id].status = "cancelled" THEN "not_editable"
    ELSE "ok"

_ensure_order_editable(ords, order_id) ==
    IF order_id \notin DOMAIN ords THEN "not_found"
    ELSE IF ords[order_id].status \in {"locked", "cancelled"} THEN "not_editable"
    ELSE "ok"

\* the creator check without the `status == "cancelled"` raise
CreatorGuard_nocancelled(ords, order_id, actor_id) ==
    IF order_id \notin DOMAIN ords THEN "not_found"
    ELSE IF ords[order_id].creator_id # actor_id THEN "not_creator"
    ELSE "ok"

\* the checks without the `creator_id != actor_id` raise
CreatorGuard_anyactor(ords, order_id, actor_id) ==
    IF order_id \notin DOMAIN ords THEN "not_found"
    ELSE IF ords[order_id].status = "cancelled" THEN "cancelled"
    ELSE "ok"

\* `if order is None or creator_id != actor_id`: a missing order reported as a
\* foreign one
CreatorGuard_missingasforeign(ords, order_id, actor_id) ==
    IF order_id \notin DOMAIN ords THEN "not_creator"
    ELSE IF ords[order_id].status = "cancelled" THEN "cancelled"
    ELSE IF ords[order_id].creator_id # actor_id THEN "not_creator"
    ELSE "ok"

\* the checks shared by set_adjustment, cancel_order, lock_order, unlock_order:
\* _get_order_row, then status == "cancelled", then creator_id != actor_id
CreatorGuard(ords, order_id, actor_id) ==
    IF order_id \notin DOMAIN ords THEN "not_found"
    ELSE IF ords[order_id].status = "cancelled" THEN "cancelled"
    ELSE IF ords[order_id].creator_id # actor_id THEN "not_creator"
    ELSE "ok"

\* what the latest call was and how it ended ("ok", or the raise it reached)
Call(op, res) == [op |-> op, res |-> res]

\* ---------- Calls in flight ----------
\* pending[c] is the call connection c has started and not yet committed, with
\* what its SELECTs have read so far; Idle when c has no call in flight
Idle ==
    [op |-> "idle", pc |-> "idle", order_id |-> 0, user_id |-> "", arg |-> NULL,
     ord |-> NULL, subtotals |-> <<>>]

InFlight(op, pc, order_id, user_id, arg) ==
    [op |-> op, pc |-> pc, order_id |-> order_id, user_id |-> user_id, arg |-> arg,
     ord |-> NULL, subtotals |-> <<>>]

NoneInFlight == [c \in Connections |-> Idle]

\* ---------- Initial state: an empty store ----------
Init ==
    /\ orders = <<>>
    /\ line_items = <<>>
    /\ participants = <<>>
    /\ now = 0
    /\ last = Call("init", "ok")
    /\ pending = NoneInFlight

\* ---------- Operations ----------
create_order(creator_id, payer_id) ==
    /\ Len(orders) < MaxOrders
    /\ orders' = Append(orders,
            [creator_id |-> creator_id,
             payer_id |-> IF payer_id = NULL THEN creator_id ELSE payer_id[1],
             discount_type |-> "none",
             discount_value |-> <<0, 1>>,
             adjustment |-> 0,
             status |-> "open"])
    /\ last' = Call("create_order", "ok")
    /\ UNCHANGED <<line_items, participants, now>>

\* add_item without the `unit_price < 0` raise
add_item_nopricecheck(order_id, user_id, unit_price, qty) ==
    LET res == IF qty <= 0 THEN "invalid_qty"
               ELSE _ensure_order_editable(orders, order_id)
        items2 == Append(line_items,
                    [order_id |-> order_id, user_id |-> user_id,
                     unit_price |-> unit_price, qty |-> qty])
    IN  /\ last' = Call("add_item", res)
        /\ res = "ok" => Len(line_items) < MaxItems
        /\ IF res = "ok"
           THEN /\ line_items' = items2
                /\ participants' = recalc_order_conn(orders, items2, participants, order_id)
           ELSE UNCHANGED <<line_items, participants>>
        /\ UNCHANGED <<orders, now>>

add_item(order_id, user_id, unit_price, qty) ==
    LET res == IF qty <= 0 THEN "invalid_qty"
               ELSE IF unit_price < 0 THEN "invalid_price"
               ELSE _ensure_order_editable(orders, order_id)
        items2 == Append(line_items,
                    [order_id |-> order_id, user_id |-> user_id,
                     unit_price |-> unit_price, qty |-> qty])
    IN  /\ last' = Call("add_item", res)
        /\ res = "ok" => Len(line_items) < MaxItems
        /\ IF res = "ok"
           THEN /\ line_items' = items2
                /\ participants' = recalc_order_conn(orders, items2, participants, order_id)
           ELSE UNCHANGED <<line_items, participants>>
        /\ UNCHANGED <<orders, now>>

set_discount_percent(order_id, percent) ==
    LET res == IF ~(0 <= percent[1] /\ percent[1] <= percent[2]) THEN "invalid_percent"
               ELSE _ensure_order_editable(orders, order_id)
        ords2 == [orders EXCEPT ![order_id].discount_type = "percent",
                                ![order_id].discount_value = percent]
    IN  /\ last' = Call("set_discount_percent", res)
        /\ IF res = "ok"
           THEN /\ orders' = ords2
                /\ participants' = recalc_order_conn(ords2, line_items, participants, order_id)
           ELSE UNCHANGED <<orders, participants>>
        /\ UNCHANGED <<line_items, now>>

set_adjustment(order_id, adjustment, actor_id) ==
    LET res == CreatorGuard(orders, order_id, actor_id)
        ords2 == [orders EXCEPT ![order_id].adjustment = adjustment]
    IN  /\ last' = Call("set_adjustment", res)
        /\ IF res = "ok"
           THEN /\ orders' = ords2
                /\ participants' = recalc_order_conn(ords2, line_items, participants, order_id)
           ELSE UNCHANGED <<orders, participants>>
        /\ UNCHANGED <<line_items, now>>

SetStatus(op, order_id, actor_id, status) ==
    LET res == CreatorGuard(orders, order_id, actor_id)
    IN  /\ last' = Call(op, res)
        /\ IF res = "ok"
           THEN orders' = [orders EXCEPT ![order_id].status = status]
           ELSE UNCHANGED orders
        /\ UNCHANGED <<line_items, participants, now>>

cancel_order(order_id, actor_id) == SetStatus("cancel_order", order_id, actor_id, "cancelled")

lock_order(order_id, actor_id) == SetStatus("lock_order", order_id, actor_id, "locked")

\* unlock_order that accepts a locked order only
unlock_order_lockedonly(order_id, actor_id) ==
    LET guard == CreatorGuard(orders, order_id, actor_id)
        res == IF guard # "ok" THEN guard
               ELSE IF orders[order_id].status # "locked" THEN "invalid_transition"
               ELSE "ok"
    IN  /\ last' = Call("unlock_order", res)
        /\ IF res = "ok"
           THEN orders' = [orders EXCEPT ![order_id].status = "open"]
           ELSE UNCHANGED orders
        /\ UNCHANGED <<line_items, participants, now>>

unlock_order(order_id, actor_id) == SetStatus("unlock_order", order_id, actor_id, "open")

\* mark_paid with the lifecycle check of the item and pricing operations
mark_paid_editable(order_id, user_id, paid_to, t) ==
    LET parts2 == recalc_order_conn(orders, line_items, participants, order_id)
        key == <<order_id, user_id>>
        res == IF _ensure_order_editable(orders, order_id) # "ok"
               THEN _ensure_order_editable(orders, order_id)
               ELSE IF key \notin DOMAIN parts2 THEN "no_participant"
               ELSE "ok"
        to == IF paid_to = NULL THEN Some(orders[order_id].payer_id) ELSE paid_to
    IN  /\ last' = Call("mark_paid", res)
        /\ t >= now
        /\ IF res = "ok"
           THEN /\ participants' = [parts2 EXCEPT ![key].paid = TRUE,
                                                  ![key].paid_at = Some(t),
                                                  ![key].paid_to = to]
                /\ now' = t
           ELSE UNCHANGED <<participants, now>>
        /\ UNCHANGED <<orders, line_items>>

\* mark_paid without the `row is None` raise: the UPDATE matches no row
mark_paid_norowcheck(order_id, user_id, paid_to, t) ==
    LET found == order_id \in DOMAIN orders
        parts2 == recalc_order_conn(orders, line_items, participants, order_id)
        key == <<order_id, user_id>>
        res == IF ~found THEN "not_found" ELSE "ok"
        to == IF paid_to = NULL THEN Some(orders[order_id].payer_id) ELSE paid_to
    IN  /\ last' = Call("mark_paid", res)
        /\ t >= now
        /\ IF res = "ok"
           THEN /\ participants' =
                      IF key \in DOMAIN parts2
                      THEN [parts2 EXCEPT ![key].paid = TRUE,
                                          ![key].paid_at = Some(t),
                                          ![key].paid_to = to]
                      ELSE parts2
                /\ now' = t
           ELSE UNCHANGED <<participants, now>>
        /\ UNCHANGED <<orders, line_items>>

\* mark_paid whose recomputation is committed before the `row is None` raise
mark_paid_norollback(order_id, user_id, paid_to, t) ==
    LET found == order_id \in DOMAIN orders
        parts2 == recalc_order_conn(orders, line_items, participants, order_id)
        key == <<order_id, user_id>>
        res == IF ~found THEN "not_found"
               ELSE IF key \notin DOMAIN parts2 THEN "no_participant"
               ELSE "ok"
        to == IF paid_to = NULL THEN Some(orders[order_id].payer_id) ELSE paid_to
    IN  /\ last' = Call("mark_paid", res)
        /\ t >= now
        /\ IF res = "ok"
           THEN /\ participants' = [parts2 EXCEPT ![key].paid = TRUE,
                                                  ![key].paid_at = Some(t),
                                                  ![key].paid_to = to]
                /\ now' = t
           ELSE /\ participants' = IF found THEN parts2 ELSE participants
                /\ now' = now
        /\ UNCHANGED <<orders, line_items>>

\* mark_paid that stores the paid_to argument as given, NULL when omitted
mark_paid_nodefault(order_id, user_id, paid_to, t) ==
    LET found == order_id \in DOMAIN orders
        parts2 == recalc_order_conn(orders, line_items, participants, order_id)
        key == <<order_id, user_id>>
        res == IF ~found THEN "not_found"
               ELSE IF key \notin DOMAIN parts2 THEN "no_participant"
               ELSE "ok"
    IN  /\ last' = Call("mark_paid", res)
        /\ t >= now
        /\ IF res = "ok"
           THEN /\ participants' = [parts2 EXCEPT ![key].paid = TRUE,
                                                  ![key].paid_at = Some(t),
                                                  ![key].paid_to = paid_to]
                /\ now' = t
           ELSE UNCHANGED <<participants, now>>
        /\ UNCHANGED <<orders, line_items>>

\* t is the reading of the clock (now_iso()) during the call
mark_paid(order_id, user_id, paid_to, t) ==
    LET found == order_id \in DOMAIN orders
        parts2 == recalc_order_conn(orders, line_items, participants, order_id)
        key == <<order_id, user_id>>
        res == IF ~found THEN "not_found"
               ELSE IF key \notin DOMAIN parts2 THEN "no_participant"
               ELSE "ok"
        to == IF paid_to = NULL THEN Some(orders[order_id].payer_id) ELSE paid_to
    IN  /\ last' = Call("mark_paid", res)
        /\ t >= now
        /\ IF res = "ok"
           THEN /\ participants' = [parts2 EXCEPT ![key].paid = TRUE,
                                                  ![key].paid_at = Some(t),
                                                  ![key].paid_to = to]
                /\ now' = t
           ELSE UNCHANGED <<participants, now>>
        /\ UNCHANGED <<orders, line_items>>

get_bill(order_id) ==
    LET res == IF order_id \in DOMAIN orders THEN "ok" ELSE "not_found"
    IN  /\ last' = Call("get_bill", res)
        /\ IF res = "ok"
           THEN participants' = recalc_order_conn(orders, line_items, participants, order_id)
           ELSE UNCHANGED participants
        /\ UNCHANGED <<orders, line_items, now>>

recalc_order(order_id) ==
    LET res == IF order_id \in DOMAIN orders THEN "ok" ELSE "not_found"
    IN  /\ last' = Call("recalc_order", res)
        /\ IF res = "ok"
           THEN participants' = recalc_order_conn(orders, line_items, participants, order_id)
           ELSE UNCHANGED participants
        /\ UNCHANGED <<orders, line_items, now>>

\* ---------- the dictionary get_bill returns ----------
\* user ids in ascending order, as ORDER BY user_id compares them
UsersAscending == <<"A", "B">>

\* ORDER BY user_id DESC
BillUsers_descending(parts, order_id) ==
    SelectSeq(<<"B", "A">>, LAMBDA u : <<order_id, u>> \in DOMAIN parts)

\* SELECT ... FROM participants WHERE order_id=? ORDER BY user_id
BillUsers(parts, order_id) ==
    SelectSeq(UsersAscending, LAMBDA u : <<order_id, u>> \in DOMAIN parts)

\* by_user_items[uid]: the user's lines in item_id order, each with line_total
BillItems(items, order_id, user_id) ==
    LET mine == SelectSeq(items, LAMBDA it : it.order_id = order_id /\ it.user_id = user_id)
    IN  [i \in DOMAIN mine |->
            [unit_price |-> mine[i].unit_price,
             qty |-> mine[i].qty,
             line_total |-> mine[i].unit_price * mine[i].qty]]

RECURSIVE SumLineTotals(_, _)
SumLineTotals(its, n) ==
    IF n = 0 THEN 0 ELSE SumLineTotals(its, n - 1) + its[n].line_total

\* read after recalc_order_conn, in the same transaction; COALESCE(paid_to, '')
Bill(ords, items, parts, order_id) ==
    LET us == BillUsers(parts, order_id)
    IN  [order |-> ords[order_id],
         participants |->
            [i \in DOMAIN us |->
                LET row == parts[<<order_id, us[i]>>]
                    its == BillItems(items, order_id, us[i])
                IN  [user_id |-> us[i],
                     subtotal |-> SumLineTotals(its, Len(its)),
                     total_due |-> row.total_due,
                     paid |-> row.paid,
                     paid_at |-> row.paid_at,
                     paid_to |-> IF row.paid_to = NULL THEN "" ELSE row.paid_to[1],
                     items |-> its]]]

\* ---------- get_user_debt ----------
\* a WHERE clause without `o.status != 'cancelled'`
DebtOrders_withcancelled(ords, parts, user_id) ==
    {o \in DOMAIN ords :
        /\ <<o, user_id>> \in DOMAIN parts
        /\ ~parts[<<o, user_id>>].paid}

\* the orders of the rows the SELECT of get_user_debt returns:
\* participants JOIN orders WHERE user_id = ? AND status != 'cancelled' AND paid = 0
DebtOrders(ords, parts, user_id) ==
    {o \in DOMAIN ords :
        /\ <<o, user_id>> \in DOMAIN parts
        /\ ords[o].status # "cancelled"
        /\ ~parts[<<o, user_id>>].paid}

\* the rows in ORDER BY o.created_at DESC: created_at grows with order_id, so
\* the latest order comes first (orders created within one second of each other
\* come in the order SQLite picks; the sequence below lists them by order_id)
RECURSIVE DebtDetails(_, _, _, _)
DebtDetails(ords, parts, user_id, os) ==
    IF os = {} THEN <<>>
    ELSE LET o == CHOOSE x \in os : \A y \in os : y <= x
         IN  <<[order_id |-> o,
                payer_id |-> ords[o].payer_id,
                amount |-> parts[<<o, user_id>>].total_due]>>
             \o DebtDetails(ords, parts, user_id, os \ {o})

RECURSIVE SumAmounts(_, _)
SumAmounts(details, n) ==
    IF n = 0 THEN 0 ELSE SumAmounts(details, n - 1) + details[n].amount

\* the dictionary get_user_debt returns
UserDebt(ords, parts, user_id) ==
    LET details == DebtDetails(ords, parts, user_id, DebtOrders(ords, parts, user_id))
    IN  [user_id |-> user_id,
         total_debt |-> SumAmounts(details, Len(details)),
         details |-> details]

\* the call itself reads the store and writes nothing
get_user_debt(user_id) ==
    /\ last' = Call("get_user_debt", "ok")
    /\ UNCHANGED <<orders, line_items, participants, now>>

Next ==
    \/ \E c \in Creators, p \in PayerArgs : create_order(c, p) /\ UNCHANGED pending
    \/ \E o \in OrderIds, u \in Users, up \in UnitPrices, q \in Qtys : add_item(o, u, up, q) /\ UNCHANGED pending
    \/ \E o \in OrderIds, p \in Percents : set_discount_percent(o, p) /\ UNCHANGED pending
    \/ \E o \in OrderIds, a \in Adjustments, u \in Users : set_adjustment(o, a, u) /\ UNCHANGED pending
    \/ \E o \in OrderIds, u \in Users : cancel_order(o, u) /\ UNCHANGED pending
    \/ \E o \in OrderIds, u \in Users : lock_order(o, u) /\ UNCHANGED pending
    \/ \E o \in OrderIds, u \in Users : unlock_order(o, u) /\ UNCHANGED pending
    \/ \E o \in OrderIds, u \in Users, p \in PaidToArgs, t \in 0..MaxTime : mark_paid(o, u, p, t) /\ UNCHANGED pending
    \/ \E o \in OrderIds : get_bill(o) /\ UNCHANGED pending
    \/ \E o \in OrderIds : recalc_order(o) /\ UNCHANGED pending

Spec == Init /\ [][Next]_vars

\* ---------- The ledger over an arbitrary store ----------
\* recalc_order_conn is a function of the rows it finds in the store.  SpecStore
\* starts from one order with any status and pricing rule, any line items, and
\* any participants rows (stale totals, rows of users without items, missing
\* rows), as a store holds after rows were written to it directly.
StoreDiscounts ==
    {<<"none", <<0, 1>>>>, <<"percent", <<1, 2>>>>, <<"amount", <<3, 1>>>>}
StoreAdjustments == {-7, 0, 5}
StoreItems ==
    {[order_id |-> 1, user_id |-> u, unit_price |-> 5, qty |-> 1] : u \in Users}
StoreRows ==
    {[total_due |-> d, paid |-> FALSE, paid_at |-> NULL, paid_to |-> NULL] : d \in {0, 7}}
    \cup {[total_due |-> d, paid |-> TRUE, paid_at |-> Some(0), paid_to |-> Some("B")] :
            d \in {0, 7}}

InitStore ==
    /\ \E d \in StoreDiscounts, a \in StoreAdjustments,
          s \in {"open", "locked", "cancelled"} :
            orders = <<[creator_id |-> "A", payer_id |-> "A",
                        discount_type |-> d[1], discount_value |-> d[2],
                        adjustment |-> a, status |-> s]>>
    /\ \E n \in 0..MaxItems : line_items \in [1..n -> StoreItems]
    /\ \E us \in SUBSET Users : participants \in [{<<1, u>> : u \in us} -> StoreRows]
    /\ now = 0
    /\ last = Call("init", "ok")
    /\ pending = NoneInFlight

NextStore ==
    \/ \E o \in OrderIds : recalc_order(o) /\ UNCHANGED pending
    \/ \E o \in OrderIds : get_bill(o) /\ UNCHANGED pending
    \/ \E o \in OrderIds, u \in Users, up \in UnitPrices, q \in Qtys : add_item(o, u, up, q) /\ UNCHANGED pending
    \/ \E o \in OrderIds, u \in Users, p \in PaidToArgs, t \in 0..MaxTime : mark_paid(o, u, p, t) /\ UNCHANGED pending
    \/ \E o \in OrderIds, u \in Users : cancel_order(o, u) /\ UNCHANGED pending

SpecStore == InitStore /\ [][NextStore]_vars

\* every operation on an existing order, over the same stores
NextStoreAll ==
    \/ NextStore
    \/ \E o \in OrderIds, p \in Percents : set_discount_percent(o, p) /\ UNCHANGED pending
    \/ \E o \in OrderIds, a \in Adjustments, u \in Users : set_adjustment(o, a, u) /\ UNCHANGED pending
    \/ \E o \in OrderIds, u \in Users : lock_order(o, u) /\ UNCHANGED pending
    \/ \E o \in OrderIds, u \in Users : unlock_order(o, u) /\ UNCHANGED pending

SpecStoreAll == InitStore /\ [][NextStoreAll]_vars

\* ---------- Pricing ----------
\* the store after create_order and up to MaxPricingItems add_item calls with
\* the prices of the test flow (A:60, B:40, B:10) and the tie cases 5 and 15,
\* and the pricing operations on it
PricingItems ==
    {[order_id |-> 1, user_id |-> "A", unit_price |-> 60, qty |-> 1],
     [order_id |-> 1, user_id |-> "B", unit_price |-> 40, qty |-> 1],
     [order_id |-> 1, user_id |-> "B", unit_price |-> 10, qty |-> 1],
     [order_id |-> 1, user_id |-> "A", unit_price |-> 5, qty |-> 1],
     [order_id |-> 1, user_id |-> "A", unit_price |-> 15, qty |-> 1]}
PricingPercents == {<<0, 1>>, <<1, 2>>, <<9, 10>>, <<1, 1>>}
PricingAdjustments == {5, -100}

InitPricing ==
    /\ orders = <<[creator_id |-> "A", payer_id |-> "A",
                   discount_type |-> "none", discount_value |-> <<0, 1>>,
                   adjustment |-> 0, status |-> "open"]>>
    /\ \E n \in 0..MaxPricingItems : line_items \in [1..n -> PricingItems]
    /\ participants = recalc_order_conn(orders, line_items, <<>>, 1)
    /\ now = 0
    /\ last = Call(IF line_items = <<>> THEN "create_order" ELSE "add_item", "ok")
    /\ pending = NoneInFlight

NextPricing ==
    \/ \E p \in PricingPercents : set_discount_percent(1, p) /\ UNCHANGED pending
    \/ \E a \in PricingAdjustments : set_adjustment(1, a, "A") /\ UNCHANGED pending
    \/ get_bill(1) /\ UNCHANGED pending

SpecPricing == InitPricing /\ [][NextPricing]_vars

\* ---------- Two orders ----------
\* the store after create_order(creator 'A') and create_order(creator 'A',
\* payer 'B'), and the operations that change what a user owes across them
DebtUnitPrices == {5}
DebtQtys == {1}
DebtPercents == {<<1, 2>>}

InitDebt ==
    /\ orders = <<[creator_id |-> "A", payer_id |-> "A",
                   discount_type |-> "none", discount_value |-> <<0, 1>>,
                   adjustment |-> 0, status |-> "open"],
                  [creator_id |-> "A", payer_id |-> "B",
                   discount_type |-> "none", discount_value |-> <<0, 1>>,
                   adjustment |-> 0, status |-> "open"]>>
    /\ line_items = <<>>
    /\ participants = <<>>
    /\ now = 0
    /\ last = Call("create_order", "ok")
    /\ pending = NoneInFlight

NextDebt ==
    \/ \E o \in OrderIds, u \in Users, up \in DebtUnitPrices, q \in DebtQtys :
            add_item(o, u, up, q) /\ UNCHANGED pending
    \/ \E o \in OrderIds, p \in DebtPercents : set_discount_percent(o, p) /\ UNCHANGED pending
    \/ \E o \in OrderIds, a \in Adjustments : set_adjustment(o, a, "A") /\ UNCHANGED pending
    \/ \E o \in OrderIds : lock_order(o, "A") /\ UNCHANGED pending
    \/ \E o \in OrderIds : cancel_order(o, "A") /\ UNCHANGED pending
    \/ \E o \in OrderIds, u \in Users : mark_paid(o, u, NULL, now) /\ UNCHANGED pending
    \/ \E u \in Users : get_user_debt(u) /\ UNCHANGED pending

SpecDebt == InitDebt /\ [][NextDebt]_vars

\* every operation that takes an order id, over the two orders
NextDebtAll ==
    \/ NextDebt
    \/ \E o \in OrderIds : unlock_order(o, "A") /\ UNCHANGED pending
    \/ \E o \in OrderIds : get_bill(o) /\ UNCHANGED pending
    \/ \E o \in OrderIds : recalc_order(o) /\ UNCHANGED pending

SpecDebtAll == InitDebt /\ [][NextDebtAll]_vars

\* ---------- Calls from several connections ----------
\* Every db.py function opens its own connection.  sqlite3 runs a SELECT issued
\* before the call's first INSERT/UPDATE/DELETE on its own, outside any
\* transaction, and begins the transaction only at that first write; from there
\* to the commit the connection holds SQLite's write lock, so the writes of a
\* call and the reads that follow them take effect at one instant (a writer that
\* finds the lock taken waits for it).  A call is therefore a sequence of steps:
\* its leading reads, one step each, and then its transaction.
ConcOrderIds == 1..MaxOrders
ConcUnitPrices == {5}
ConcQtys == {1}
ConcPercents == {<<1, 2>>}

\* for uid, subtotal in subtotals.items(): upsert, with the order row and the
\* subtotals the call has read
UpsertSubtotals(parts, order_id, order, subtotals) ==
    LET keys == {<<order_id, u>> : u \in DOMAIN subtotals}
    IN  [key \in (DOMAIN parts) \cup keys |->
            IF key \in keys
            THEN UpsertRow(parts, key, TotalDue(order, subtotals[key[2]]))
            ELSE parts[key]]

\* what recalc_order_conn writes for call: nothing when the order row it read
\* was cancelled; otherwise the upserts computed from what it read, then the
\* DELETE, whose subquery reads line_items inside the transaction
RecalcWrite(parts, items, call) ==
    IF call.ord[1].status = "cancelled" THEN parts
    ELSE PurgeOrphans(UpsertSubtotals(parts, call.order_id, call.ord[1], call.subtotals),
                      items, call.order_id)

Finish(c, op, res) ==
    /\ last' = Call(op, res)
    /\ pending' = [pending EXCEPT ![c] = Idle]

\* a call that raises before its first write ends there; otherwise it goes on
Checked(c, op, res, call) ==
    IF res = "ok"
    THEN /\ pending' = [pending EXCEPT ![c] = call]
         /\ UNCHANGED last
    ELSE Finish(c, op, res)

\* add_item up to _ensure_order_editable
add_item_check(c, order_id, user_id, unit_price, qty) ==
    LET res == IF qty <= 0 THEN "invalid_qty"
               ELSE IF unit_price < 0 THEN "invalid_price"
               ELSE _ensure_order_editable(orders, order_id)
        adding == {d \in Connections : pending[d].op = "add_item"}
    IN  /\ pending[c] = Idle
        /\ res = "ok" => Len(line_items) + Cardinality(adding) < MaxItems
        /\ Checked(c, "add_item", res,
                   InFlight("add_item", "write", order_id, user_id, <<unit_price, qty>>))
        /\ UNCHANGED <<orders, line_items, participants, now>>

\* add_item from the INSERT to the commit
add_item_write(c) ==
    LET call == pending[c]
        items2 == Append(line_items,
                    [order_id |-> call.order_id, user_id |-> call.user_id,
                     unit_price |-> call.arg[1], qty |-> call.arg[2]])
    IN  /\ call.op = "add_item"
        /\ line_items' = items2
        /\ participants' = recalc_order_conn(orders, items2, participants, call.order_id)
        /\ Finish(c, "add_item", "ok")
        /\ UNCHANGED <<orders, now>>

set_discount_percent_check(c, order_id, percent) ==
    LET res == IF ~(0 <= percent[1] /\ percent[1] <= percent[2]) THEN "invalid_percent"
               ELSE _ensure_order_editable(orders, order_id)
    IN  /\ pending[c] = Idle
        /\ Checked(c, "set_discount_percent", res,
                   InFlight("set_discount_percent", "write", order_id, "", percent))
        /\ UNCHANGED <<orders, line_items, participants, now>>

set_discount_percent_write(c) ==
    LET call == pending[c]
        ords2 == [orders EXCEPT ![call.order_id].discount_type = "percent",
                                ![call.order_id].discount_value = call.arg]
    IN  /\ call.op = "set_discount_percent"
        /\ orders' = ords2
        /\ participants' = recalc_order_conn(ords2, line_items, participants, call.order_id)
        /\ Finish(c, "set_discount_percent", "ok")
        /\ UNCHANGED <<line_items, now>>

set_adjustment_check(c, order_id, adjustment, actor_id) ==
    /\ pending[c] = Idle
    /\ Checked(c, "set_adjustment", CreatorGuard(orders, order_id, actor_id),
               InFlight("set_adjustment", "write", order_id, actor_id, <<adjustment>>))
    /\ UNCHANGED <<orders, line_items, participants, now>>

set_adjustment_write(c) ==
    LET call == pending[c]
        ords2 == [orders EXCEPT ![call.order_id].adjustment = call.arg[1]]
    IN  /\ call.op = "set_adjustment"
        /\ orders' = ords2
        /\ participants' = recalc_order_conn(ords2, line_items, participants, call.order_id)
        /\ Finish(c, "set_adjustment", "ok")
        /\ UNCHANGED <<line_items, now>>

\* lock_order / cancel_order up to the creator check
SetStatus_check(c, op, order_id, actor_id, status) ==
    /\ pending[c] = Idle
    /\ Checked(c, op, CreatorGuard(orders, order_id, actor_id),
               InFlight(op, "write", order_id, actor_id, <<status>>))
    /\ UNCHANGED <<orders, line_items, participants, now>>

\* UPDATE orders SET status=? and the commit
SetStatus_write(c) ==
    LET call == pending[c]
    IN  /\ call.op \in {"lock_order", "cancel_order"}
        /\ orders' = [orders EXCEPT ![call.order_id].status = call.arg[1]]
        /\ Finish(c, call.op, "ok")
        /\ UNCHANGED <<line_items, participants, now>>

\* get_bill / mark_paid: SELECT * FROM orders WHERE order_id=? (get_bill reads
\* the row once itself and recalc_order_conn reads it again; the second read is
\* the one the recomputation uses)
recalc_read_order(c, op, order_id, user_id, paid_to) ==
    LET res == IF order_id \in DOMAIN orders THEN "ok" ELSE "not_found"
        call == [InFlight(op, "write", order_id, user_id, paid_to) EXCEPT
                    !.ord = Some(orders[order_id]),
                    !.pc = IF orders[order_id].status = "cancelled"
                           THEN "write" ELSE "subtotals"]
    IN  /\ pending[c] = Idle
        /\ Checked(c, op, res, call)
        /\ UNCHANGED <<orders, line_items, participants, now>>

get_bill_read(c, order_id) == recalc_read_order(c, "get_bill", order_id, "", NULL)

mark_paid_read(c, order_id, user_id, paid_to) ==
    recalc_read_order(c, "mark_paid", order_id, user_id, paid_to)

\* recalc_order_conn: SELECT user_id, SUM(unit_price * qty) ... GROUP BY user_id
recalc_read_subtotals(c) ==
    LET call == pending[c]
    IN  /\ call.pc = "subtotals"
        /\ pending' = [pending EXCEPT
                ![c].subtotals = [u \in Owners(line_items, call.order_id) |->
                                    Subtotal(line_items, call.order_id, u)],
                ![c].pc = "write"]
        /\ UNCHANGED <<orders, line_items, participants, now, last>>

\* get_bill from the first upsert to the commit
get_bill_write(c) ==
    LET call == pending[c]
    IN  /\ call.op = "get_bill" /\ call.pc = "write"
        /\ participants' = RecalcWrite(participants, line_items, call)
        /\ Finish(c, "get_bill", "ok")
        /\ UNCHANGED <<orders, line_items, now>>

\* mark_paid from the first upsert to the commit, or to the rollback of
\* `row is None`
mark_paid_write(c, t) ==
    LET call == pending[c]
        parts2 == RecalcWrite(participants, line_items, call)
        key == <<call.order_id, call.user_id>>
        res == IF key \notin DOMAIN parts2 THEN "no_participant" ELSE "ok"
        to == IF call.arg = NULL THEN Some(orders[call.order_id].payer_id) ELSE call.arg
    IN  /\ call.op = "mark_paid" /\ call.pc = "write"
        /\ t >= now
        /\ IF res = "ok"
           THEN /\ participants' = [parts2 EXCEPT ![key].paid = TRUE,
                                                  ![key].paid_at = Some(t),
                                                  ![key].paid_to = to]
                /\ now' = t
           ELSE UNCHANGED <<participants, now>>
        /\ Finish(c, "mark_paid", res)
        /\ UNCHANGED <<orders, line_items>>

\* the store after create_order(creator 'A'), with no call in flight
InitConc ==
    /\ orders = <<[creator_id |-> "A", payer_id |-> "A",
                   discount_type |-> "none", discount_value |-> <<0, 1>>,
                   adjustment |-> 0, status |-> "open"]>>
    /\ line_items = <<>>
    /\ participants = <<>>
    /\ now = 0
    /\ last = Call("create_order", "ok")
    /\ pending = NoneInFlight

NextConc ==
    \/ \E c \in Connections, o \in ConcOrderIds, u \in Users,
          up \in ConcUnitPrices, q \in ConcQtys : add_item_check(c, o, u, up, q)
    \/ \E c \in Connections : add_item_write(c)
    \/ \E c \in Connections, o \in ConcOrderIds, p \in ConcPercents :
            set_discount_percent_check(c, o, p)
    \/ \E c \in Connections : set_discount_percent_write(c)
    \/ \E c \in Connections, o \in ConcOrderIds, a \in Adjustments :
            set_adjustment_check(c, o, a, "A")
    \/ \E c \in Connections : set_adjustment_write(c)
    \/ \E c \in Connections, o \in ConcOrderIds :
            SetStatus_check(c, "lock_order", o, "A", "locked")
    \/ \E c \in Connections, o \in ConcOrderIds :
            SetStatus_check(c, "cancel_order", o, "A", "cancelled")
    \/ \E c \in Connections : SetStatus_write(c)
    \/ \E c \in Connections, o \in ConcOrderIds : get_bill_read(c, o)
    \/ \E c \in Connections, o \in ConcOrderIds, u \in Users : mark_paid_read(c, o, u, NULL)
    \/ \E c \in Connections : recalc_read_subtotals(c)
    \/ \E c \in Connections : get_bill_write(c)
    \/ \E c \in Connections : mark_paid_write(c, now)

SpecConc == InitConc /\ [][NextConc]_vars

\* ---------- Properties ----------
\* the amount the ledger owes user_id in order_id, derived from the line items
\* and the order's pricing rule
Derived(order_id, user_id) ==
    LET o == orders[order_id]
        sub == Subtotal(line_items, order_id, user_id)
        disc == IF o.discount_type = "percent"
                THEN RoundHalfEven(sub * o.discount_value[1], o.discount_value[2])
                ELSE sub
    IN  Max(0, disc + o.adjustment)

RowsOf(parts, order_id) ==
    [key \in {k \in DOMAIN parts : k[1] = order_id} |-> parts[key]]

\* C1: after any sequence of completed operations every participant row of a
\* non-cancelled order has total_due = max(0, discount(subtotal) + adjustment)
\* for the order's current line items and pricing rule
C1_TotalDueDerived ==
    \A key \in DOMAIN participants :
        orders[key[1]].status # "cancelled"
            => participants[key].total_due = Derived(key[1], key[2])

\* a locked order whose adjustment was just set, with a second item added to a
\* user who already had a row: the row carries the re-derived total 10 - 7
C1_Witness ==
    /\ last = Call("set_adjustment", "ok")
    /\ \E key \in DOMAIN participants :
        /\ orders[key[1]].status = "locked"
        /\ orders[key[1]].adjustment = -7
        /\ Subtotal(line_items, key[1], key[2]) = 10
        /\ participants[key].total_due = 3

\* C2: a participant row exists for (order, user) iff the user owns a line item
\* of the order; a recomputation of a non-cancelled order deletes the row of a
\* user who owns none
C2_RowIffOwner ==
    /\ DOMAIN participants =
         {k \in (DOMAIN orders) \X Users : k[2] \in Owners(line_items, k[1])}
    /\ \A o \in DOMAIN orders : \A u \in Users \ Owners(line_items, o) :
         orders[o].status # "cancelled" =>
            LET orphan == [key \in (DOMAIN participants) \cup {<<o, u>>} |->
                             IF key = <<o, u>> THEN NewRow(7) ELSE participants[key]]
                after == recalc_order_conn(orders, line_items, orphan, o)
            IN  /\ <<o, u>> \notin DOMAIN after
                /\ after = participants

\* both users own an item and both have a row, after an add_item
C2_Witness ==
    /\ last = Call("add_item", "ok")
    /\ \E o \in DOMAIN orders :
        /\ Owners(line_items, o) = Users
        /\ \A u \in Users : <<o, u>> \in DOMAIN participants

\* C3: recomputation is idempotent: a recalc_order that directly follows a
\* completed recalc_order of the same order leaves every participant row as the
\* first one left it
C3_RecalcIdempotent ==
    [][\A o \in DOMAIN orders :
        (last = Call("recalc_order", "ok") /\ recalc_order(o))
            => participants' = participants]_vars

\* a recalc_order has run on a non-cancelled order whose store held a stale
\* total and a paid row: the rows now carry the derived totals
C3_Witness ==
    /\ last = Call("recalc_order", "ok")
    /\ orders[1].status # "cancelled"
    /\ \E key \in DOMAIN participants :
        /\ participants[key].paid
        /\ participants[key].total_due = 10

\* C4: recomputation never changes paid, paid_at or paid_to of an existing row:
\* every step other than a mark_paid of that very (order, user) keeps a paid
\* row paid with the same paid_at and paid_to, while its total_due is the value
\* derived in the new state when the order is not cancelled
C4_PaidFieldsSticky ==
    [][\A key \in DOMAIN participants :
        (/\ participants[key].paid
         /\ ~ (/\ last'.op = "mark_paid"
               /\ \E p \in PaidToArgs, t \in 0..MaxTime : mark_paid(key[1], key[2], p, t)))
        => /\ key \in DOMAIN participants'
           /\ participants'[key].paid
           /\ participants'[key].paid_at = participants[key].paid_at
           /\ participants'[key].paid_to = participants[key].paid_to
           /\ orders'[key[1]].status # "cancelled"
                => participants'[key].total_due = Derived(key[1], key[2])']_vars

\* a user paid 5 and the discount was set to one half afterwards: the row is
\* still paid and its total_due is the new 2
C4_Witness ==
    /\ last = Call("set_discount_percent", "ok")
    /\ \E key \in DOMAIN participants :
        /\ participants[key].paid
        /\ participants[key].paid_at # NULL
        /\ Subtotal(line_items, key[1], key[2]) = 5
        /\ participants[key].total_due = 2

\* C5: every participant row has total_due >= 0
C5_TotalDueNonNegative ==
    \A key \in DOMAIN participants : participants[key].total_due >= 0

\* the adjustment -7 exceeds the discounted subtotal 5: total_due is exactly 0
C5_Witness ==
    \E key \in DOMAIN participants :
        /\ orders[key[1]].adjustment = -7
        /\ orders[key[1]].status # "cancelled"
        /\ Subtotal(line_items, key[1], key[2]) = 5
        /\ participants[key].total_due = 0

RECURSIVE SumDue(_, _)
SumDue(parts, keys) ==
    IF keys = {} THEN 0
    ELSE LET k == CHOOSE x \in keys : TRUE
         IN  parts[k].total_due + SumDue(parts, keys \ {k})

RECURSIVE OrderTotal(_, _, _)
OrderTotal(items, order_id, n) ==
    IF n = 0 THEN 0
    ELSE OrderTotal(items, order_id, n - 1)
         + (IF items[n].order_id = order_id
            THEN items[n].unit_price * items[n].qty ELSE 0)

\* C6: conservation: for an order with discount none and adjustment 0 the sum
\* of total_due over its participant rows equals the sum of unit_price x qty
\* over its line items
C6_Conservation ==
    \A o \in DOMAIN orders :
        (orders[o].discount_type = "none" /\ orders[o].adjustment = 0)
        => SumDue(participants, {k \in DOMAIN participants : k[1] = o})
             = OrderTotal(line_items, o, Len(line_items))

\* two items of one user were added to an order without discount or adjustment
C6_Witness ==
    /\ last = Call("add_item", "ok")
    /\ \E key \in DOMAIN participants :
        /\ orders[key[1]].discount_type = "none"
        /\ orders[key[1]].adjustment = 0
        /\ Subtotal(line_items, key[1], key[2]) = 10
        /\ Len(line_items) = 2

Stale(order_id) ==
    \/ \E u \in Owners(line_items, order_id) : <<order_id, u>> \notin DOMAIN participants
    \/ \E key \in DOMAIN participants :
        key[1] = order_id /\ participants[key].total_due # Derived(key[1], key[2])

\* C7: frozen on cancel: on a cancelled order add_item is rejected and inserts
\* no line item, and a recomputation pass ends without error and changes no
\* participant row, also when the rows do not reflect the order's line items
C7_FrozenOnCancel ==
    [][\A o \in DOMAIN orders :
        orders[o].status = "cancelled" =>
          /\ \A u \in Users, up \in UnitPrices, q \in Qtys :
                (last'.op = "add_item" /\ add_item(o, u, up, q))
                => /\ last'.res # "ok"
                   /\ (q > 0 /\ up >= 0) => last'.res = "not_editable"
                   /\ line_items' = line_items
                   /\ participants' = participants
          /\ (last'.op = "recalc_order" /\ recalc_order(o))
                => /\ last'.res = "ok"
                   /\ participants' = participants
                   /\ line_items' = line_items]_vars

\* a recomputation pass has ended on a cancelled order whose participant rows
\* are stale
C7_Witness ==
    /\ last = Call("recalc_order", "ok")
    /\ orders[1].status = "cancelled"
    /\ Stale(1)
    /\ line_items # <<>>

\* C8: after an order was cancelled its participant rows stay exactly as they
\* were under every later operation, mark_paid included
C8_RowsFrozenAfterCancel ==
    [][\A o \in DOMAIN orders :
        orders[o].status = "cancelled"
            => RowsOf(participants', o) = RowsOf(participants, o)]_vars

Transitions ==
    {<<"open", "locked">>, <<"locked", "open">>,
     <<"open", "cancelled">>, <<"locked", "cancelled">>}

\* C9: cancelled is terminal: a cancelled order stays cancelled; lock, unlock and
\* cancel on it fail and leave the status as it is; the status only ever moves
\* open->locked, locked->open, open->cancelled, locked->cancelled
C9_CancelledTerminal ==
    [][\A o \in DOMAIN orders :
        /\ o \in DOMAIN orders'
        /\ orders[o].status = "cancelled" => orders'[o].status = "cancelled"
        /\ orders'[o].status # orders[o].status
              => <<orders[o].status, orders'[o].status>> \in Transitions
        /\ \A u \in Users :
              (/\ orders[o].status = "cancelled"
               /\ last'.op \in {"lock_order", "unlock_order", "cancel_order"}
               /\ (lock_order(o, u) \/ unlock_order(o, u) \/ cancel_order(o, u)))
              => last'.res = "cancelled" /\ orders' = orders]_vars

\* the creator's unlock of a cancelled order has just failed
C9_Witness ==
    /\ last = Call("unlock_order", "cancelled")
    /\ \E o \in DOMAIN orders : orders[o].status = "cancelled"

C11_AdjustmentOnlyWhenOpen ==
    [][\A o \in DOMAIN orders : \A a \in Adjustments :
        (/\ orders[o].status = "locked"
         /\ last'.op = "set_adjustment"
         /\ set_adjustment(o, a, orders[o].creator_id))
        => /\ last'.res # "ok"
           /\ orders'[o].adjustment = orders[o].adjustment
           /\ participants' = participants]_vars

\* C12: lock is permitted only on an open order: the creator's lock of an order
\* that is already locked fails
C12_LockOnlyWhenOpen ==
    [][\A o \in DOMAIN orders :
        (/\ orders[o].status = "locked"
         /\ last'.op = "lock_order"
         /\ lock_order(o, orders[o].creator_id))
        => last'.res # "ok"]_vars

\* C13: lock_order, unlock_order, cancel_order and set_adjustment called by an
\* actor who is not the order's creator always fail (with the not-creator error
\* when the order is not cancelled) and leave the orders and the participant
\* rows as they were; called by the creator on an open order each succeeds and
\* writes the new status or adjustment
C13_CreatorOnly ==
    [][\A o \in DOMAIN orders : \A u \in Users :
        /\ (/\ last'.op \in {"lock_order", "unlock_order", "cancel_order", "set_adjustment"}
            /\ u # orders[o].creator_id
            /\ \/ lock_order(o, u)
               \/ unlock_order(o, u)
               \/ cancel_order(o, u)
               \/ \E a \in Adjustments : set_adjustment(o, a, u))
           => /\ last'.res # "ok"
              /\ orders[o].status # "cancelled" => last'.res = "not_creator"
              /\ UNCHANGED <<orders, line_items, participants>>
        /\ (u = orders[o].creator_id /\ orders[o].status = "open") =>
              /\ (last'.op = "lock_order" /\ lock_order(o, u))
                    => last'.res = "ok" /\ orders'[o].status = "locked"
              /\ (last'.op = "unlock_order" /\ unlock_order(o, u))
                    => last'.res = "ok" /\ orders'[o].status = "open"
              /\ (last'.op = "cancel_order" /\ cancel_order(o, u))
                    => last'.res = "ok" /\ orders'[o].status = "cancelled"
              /\ \A a \in Adjustments :
                    (last'.op = "set_adjustment" /\ set_adjustment(o, a, u))
                    => last'.res = "ok" /\ orders'[o].adjustment = a]_vars

\* set_adjustment by a user who is not the creator has just been refused on an
\* open order that has participant rows
C13_Witness ==
    /\ last = Call("set_adjustment", "not_creator")
    /\ \E key \in DOMAIN participants :
          /\ orders[key[1]].status = "open"
          /\ orders[key[1]].adjustment = 0

\* C14: on an open and equally on a locked order, mark_paid for a user who owns
\* at least one line item succeeds: afterwards that user's row has paid = TRUE,
\* paid_at = the time of the call and paid_to = the supplied receiver or, when
\* none is supplied, the order's payer (who is the creator when no payer was
\* given at creation); the row's total_due and every other row are unchanged
C14_MarkPaid ==
    [][/\ \A o \in DOMAIN orders :
            \A u \in Owners(line_items, o), p \in PaidToArgs, t \in now..MaxTime :
              (/\ orders[o].status \in {"open", "locked"}
               /\ last'.op = "mark_paid"
               /\ mark_paid(o, u, p, t))
              => /\ last'.res = "ok"
                 /\ DOMAIN participants' = DOMAIN participants
                 /\ participants'[<<o, u>>] =
                        [total_due |-> participants[<<o, u>>].total_due,
                         paid |-> TRUE,
                         paid_at |-> Some(t),
                         paid_to |-> IF p = NULL THEN Some(orders[o].payer_id) ELSE p]
                 /\ \A key \in DOMAIN participants \ {<<o, u>>} :
                        participants'[key] = participants[key]
       /\ \A c \in Creators :
            (last'.op = "create_order" /\ create_order(c, NULL))
            => orders'[Len(orders')].payer_id = c]_vars

\* on a locked order created without a payer, a user has just been marked paid
\* with no receiver supplied while another participant is still unpaid
C14_Witness ==
    /\ last = Call("mark_paid", "ok")
    /\ \E o \in DOMAIN orders :
          /\ orders[o].status = "locked"
          /\ orders[o].payer_id = orders[o].creator_id
          /\ <<o, "B">> \in DOMAIN participants
          /\ participants[<<o, "B">>].paid
          /\ participants[<<o, "B">>].paid_to = Some(orders[o].payer_id)
          /\ <<o, "A">> \in DOMAIN participants
          /\ ~participants[<<o, "A">>].paid

\* C15: mark_paid for a user who owns no line item in the order fails with the
\* no-such-participant error, creates no participant row and leaves every
\* existing row unchanged
C15_MarkPaidNoParticipant ==
    [][\A o \in DOMAIN orders :
        \A u \in Users \ Owners(line_items, o), p \in PaidToArgs, t \in now..MaxTime :
          (last'.op = "mark_paid" /\ mark_paid(o, u, p, t))
          => /\ last'.res = "no_participant"
             /\ UNCHANGED <<orders, line_items, participants>>]_vars

\* mark_paid has just been refused for a user without items on an order where
\* another user has a row
C15_Witness ==
    /\ last = Call("mark_paid", "no_participant")
    /\ \E o \in DOMAIN orders :
          /\ Owners(line_items, o) = {"A"}
          /\ <<o, "A">> \in DOMAIN participants
          /\ <<o, "B">> \notin DOMAIN participants

\* C16: whenever an operation fails, with any error, the orders, the line items
\* and the participant rows are exactly what they were before the call: nothing
\* the failed call wrote (the recomputation mark_paid runs before its checks
\* included) stays in the store
C16_FailureAtomic ==
    [][last'.res # "ok" => UNCHANGED <<orders, line_items, participants>>]_vars

\* mark_paid has just failed on an open order whose rows its recomputation
\* would have rewritten
C16_Witness ==
    /\ last = Call("mark_paid", "no_participant")
    /\ \E o \in DOMAIN orders :
          /\ orders[o].status = "open"
          /\ recalc_order_conn(orders, line_items, participants, o) # participants

\* C19: in every reachable state get_user_debt(u) returns as total_debt the sum,
\* over the non-cancelled orders in which u has an unpaid participant row, of
\* max(0, discount(subtotal) + adjustment) derived from u's current line items
\* and the order's current pricing rule, with exactly one detail entry per such
\* order carrying that amount; an order that is cancelled or in which u is
\* marked paid is not among the details; with no such order the result is
\* total_debt 0 and no details
C19_UserDebt ==
    \A u \in Users :
        LET r == UserDebt(orders, participants, u)
            owing == {o \in DOMAIN orders :
                        /\ orders[o].status # "cancelled"
                        /\ u \in Owners(line_items, o)
                        /\ <<o, u>> \in DOMAIN participants
                        /\ ~participants[<<o, u>>].paid}
            ids == {r.details[i].order_id : i \in DOMAIN r.details}
            amounts == [o \in owing |-> [total_due |-> Derived(o, u)]]
        IN  /\ r.total_debt = SumDue(amounts, owing)
            /\ ids = owing
            /\ Len(r.details) = Cardinality(owing)
            /\ \A i \in DOMAIN r.details :
                  r.details[i].amount = Derived(r.details[i].order_id, u)
            /\ \A o \in DOMAIN orders :
                  (\/ orders[o].status = "cancelled"
                   \/ (<<o, u>> \in DOMAIN participants /\ participants[<<o, u>>].paid))
                  => o \notin ids
            /\ owing = {} => r.total_debt = 0 /\ r.details = <<>>

\* get_user_debt has just been called while 'A' owes 5 on one order and 2 on
\* the other, discounted, order, and 'B' owes nothing
C19_Witness ==
    /\ last = Call("get_user_debt", "ok")
    /\ Len(UserDebt(orders, participants, "A").details) = 2
    /\ UserDebt(orders, participants, "A").total_debt = 7
    /\ UserDebt(orders, participants, "B") =
            [user_id |-> "B", total_debt |-> 0, details |-> <<>>]

Rank(user_id) == CHOOSE i \in DOMAIN UsersAscending : UsersAscending[i] = user_id

\* C20: get_bill returns exactly one participant entry per user owning at least
\* one line item of the order, in ascending user-id order, each with subtotal =
\* the sum of that user's unit_price x qty and, for a non-cancelled order,
\* total_due = max(0, discount(subtotal) + adjustment); the call changes no paid
\* field and no order or line-item data
C20_BillView ==
    [][\A o \in DOMAIN orders :
        (last'.op = "get_bill" /\ get_bill(o)) =>
            LET b == Bill(orders', line_items', participants', o).participants
            IN  /\ last'.res = "ok"
                /\ {b[i].user_id : i \in DOMAIN b} = Owners(line_items, o)
                /\ Len(b) = Cardinality(Owners(line_items, o))
                /\ \A i, j \in DOMAIN b : i < j => Rank(b[i].user_id) < Rank(b[j].user_id)
                /\ \A i \in DOMAIN b :
                      /\ b[i].subtotal = Subtotal(line_items, o, b[i].user_id)
                      /\ orders[o].status # "cancelled"
                            => b[i].total_due = Derived(o, b[i].user_id)
                      /\ b[i].paid = participants[<<o, b[i].user_id>>].paid
                /\ DOMAIN participants' = DOMAIN participants
                /\ \A key \in DOMAIN participants :
                      /\ participants'[key].paid = participants[key].paid
                      /\ participants'[key].paid_at = participants[key].paid_at
                      /\ participants'[key].paid_to = participants[key].paid_to
                /\ UNCHANGED <<orders, line_items>>]_vars

\* get_bill has just returned the bill of a discounted order with two
\* participants, 'A' paid and 'B' not
C20_Witness ==
    /\ last = Call("get_bill", "ok")
    /\ \E o \in DOMAIN orders :
          LET b == Bill(orders, line_items, participants, o).participants
          IN  /\ orders[o].discount_type = "percent"
              /\ Len(b) = 2
              /\ b[1].user_id = "A" /\ b[1].paid /\ b[1].subtotal = 5 /\ b[1].total_due = 2
              /\ b[2].user_id = "B" /\ ~b[2].paid /\ b[2].paid_to = ""

ItemsOf(items, order_id) == SelectSeq(items, LAMBDA it : it.order_id = order_id)

\* C17: with calls running on several connections, no line item and no pricing
\* change is committed to an order that is already locked or cancelled when the
\* write takes effect: the line items and the discount rule of a locked or
\* cancelled order, and the adjustment of a cancelled order, never change (what
\* set_adjustment may do to a locked order is C11's subject)
C17_NoWriteAfterLock ==
    [][\A o \in DOMAIN orders :
        orders[o].status \in {"locked", "cancelled"} =>
            /\ ItemsOf(line_items', o) = ItemsOf(line_items, o)
            /\ orders'[o].discount_type = orders[o].discount_type
            /\ orders'[o].discount_value = orders[o].discount_value
            /\ orders[o].status = "cancelled"
                  => orders'[o].adjustment = orders[o].adjustment]_vars

\* C18: with calls running on several connections, once every call has
\* completed each participant row of a non-cancelled order has total_due =
\* max(0, discount(subtotal) + adjustment) for the order's line items and
\* pricing rule: a recomputation never overwrites a newer total with one
\* computed from what it read earlier
C18_RecomputeAtomic ==
    pending = NoneInFlight =>
        \A key \in DOMAIN participants :
            orders[key[1]].status # "cancelled"
            => participants[key].total_due = Derived(key[1], key[2])

\* r is an integer nearest to the rational n/d
Nearest(n, d, r) == 2 * d * r - d <= 2 * n /\ 2 * n <= 2 * d * r + d

\* C21: the discount is applied to the subtotal first and the adjustment is
\* added afterwards: total_due = max(0, round(subtotal x p) + adjustment),
\* whichever of set_discount_percent and set_adjustment was called first; for
\* items A:60, B:40, B:10 the totals are 60/50 with no discount, 54/45 with
\* percent 0.9, and 59/50 with percent 0.9 and adjustment +5
C21_DiscountThenAdjustment ==
    \A o \in DOMAIN orders :
        LET ord == orders[o]
            pct == ord.discount_type = "percent"
            due(u) == participants[<<o, u>>].total_due
        IN  /\ \A key \in DOMAIN participants :
                  key[1] = o =>
                    LET sub == Subtotal(line_items, o, key[2])
                    IN  IF pct
                        THEN \E r \in 0..sub :
                                /\ Nearest(sub * ord.discount_value[1], ord.discount_value[2], r)
                                /\ participants[key].total_due =
                                        (IF r + ord.adjustment >= 0 THEN r + ord.adjustment ELSE 0)
                        ELSE participants[key].total_due =
                                (IF sub + ord.adjustment >= 0 THEN sub + ord.adjustment ELSE 0)
            /\ (Subtotal(line_items, o, "A") = 60 /\ Subtotal(line_items, o, "B") = 50) =>
                  /\ (~pct /\ ord.adjustment = 0) => due("A") = 60 /\ due("B") = 50
                  /\ (pct /\ ord.discount_value = <<9, 10>> /\ ord.adjustment = 0)
                        => due("A") = 54 /\ due("B") = 45
                  /\ (pct /\ ord.discount_value = <<9, 10>> /\ ord.adjustment = 5)
                        => due("A") = 59 /\ due("B") = 50

\* items A:60, B:40, B:10 with adjustment +5 set first and percent 0.9 set
\* after it: the totals are 59 and 50
C21_Witness ==
    /\ last = Call("set_discount_percent", "ok")
    /\ Len(line_items) = 3
    /\ Subtotal(line_items, 1, "A") = 60
    /\ Subtotal(line_items, 1, "B") = 50
    /\ orders[1].discount_value = <<9, 10>>
    /\ orders[1].adjustment = 5
    /\ participants[<<1, "A">>].total_due = 59
    /\ participants[<<1, "B">>].total_due = 50

\* C22: with a percent discount p in [0,1] and no adjustment, total_due is
\* subtotal x p rounded to the nearest integer, a tie going to the even
\* integer and never up to an odd one (5 x 0.5 gives 2, 15 x 0.5 gives 8,
\* 5 x 0.9 gives 4), and is an integer between 0 and the subtotal
C22_RoundHalfEven ==
    \A key \in DOMAIN participants :
        LET ord == orders[key[1]]
            sub == Subtotal(line_items, key[1], key[2])
            n == sub * ord.discount_value[1]
            d == ord.discount_value[2]
            due == participants[key].total_due
        IN  (ord.discount_type = "percent" /\ ord.adjustment = 0) =>
                /\ Nearest(n, d, due)
                /\ (2 * n = 2 * d * due - d \/ 2 * n = 2 * d * due + d) => due % 2 = 0
                /\ 0 <= due /\ due <= sub
                /\ (sub = 5 /\ ord.discount_value = <<1, 2>>) => due = 2
                /\ (sub = 15 /\ ord.discount_value = <<1, 2>>) => due = 8
                /\ (sub = 5 /\ ord.discount_value = <<9, 10>>) => due = 4

\* percent 0.5 has just been set on an order where 'A' has one item of 15 and
\* 'B' items of 40 and 10: 7.5 is rounded to 8 and 25 stays 25
C22_Witness ==
    /\ last = Call("set_discount_percent", "ok")
    /\ orders[1].discount_value = <<1, 2>>
    /\ orders[1].adjustment = 0
    /\ Subtotal(line_items, 1, "A") = 15
    /\ participants[<<1, "A">>].total_due = 8
    /\ Subtotal(line_items, 1, "B") = 50
    /\ participants[<<1, "B">>].total_due = 25

\* C23: set_discount_percent with percent < 0 or percent > 1 fails and leaves
\* the order's discount rule unchanged; add_item with qty <= 0 or
\* unit_price < 0 fails and inserts no line item; so every stored line item
\* has qty > 0 and unit_price >= 0 and every stored percent lies in [0,1]
C23_InputValidation ==
    [][/\ \A o \in OrderIds, p \in Percents :
            (/\ p[1] < 0 \/ p[1] > p[2]
             /\ last'.op = "set_discount_percent"
             /\ set_discount_percent(o, p))
            => /\ last'.res = "invalid_percent"
               /\ UNCHANGED <<orders, line_items, participants>>
       /\ \A o \in OrderIds, u \in Users, up \in UnitPrices, q \in Qtys :
            (/\ q <= 0 \/ up < 0
             /\ last'.op = "add_item"
             /\ add_item(o, u, up, q))
            => /\ last'.res \in {"invalid_qty", "invalid_price"}
               /\ UNCHANGED <<orders, line_items, participants>>
       /\ \A i \in DOMAIN line_items' :
            line_items'[i].qty > 0 /\ line_items'[i].unit_price >= 0
       /\ \A o \in DOMAIN orders' :
            orders'[o].discount_type = "percent"
            => /\ 0 <= orders'[o].discount_value[1]
               /\ orders'[o].discount_value[1] <= orders'[o].discount_value[2]]_vars

\* add_item with a negative unit price has just been refused on an open,
\* discounted order that holds an item
C23_Witness ==
    /\ last = Call("add_item", "invalid_price")
    /\ \E o \in DOMAIN orders :
          /\ orders[o].status = "open"
          /\ orders[o].discount_type = "percent"
          /\ Owners(line_items, o) # {}

\* the order row, the line items and the participant rows of order y are the
\* same before and after the step
OrderUntouched(y) ==
    /\ orders'[y] = orders[y]
    /\ ItemsOf(line_items', y) = ItemsOf(line_items, y)
    /\ RowsOf(participants', y) = RowsOf(participants, y)

\* C24: an operation addressed to order x (add_item, set_discount_percent,
\* set_adjustment, lock, unlock, cancel, mark_paid, get_bill, recalc_order)
\* leaves the order row, the line items and the participant rows of every
\* other order y unchanged, in any sequence of operations on x and y
C24_OrderIsolation ==
    [][\A x \in DOMAIN orders :
        (\/ \E u \in Users, up \in DebtUnitPrices, q \in DebtQtys :
                last'.op = "add_item" /\ add_item(x, u, up, q)
         \/ \E p \in DebtPercents :
                last'.op = "set_discount_percent" /\ set_discount_percent(x, p)
         \/ \E a \in Adjustments : last'.op = "set_adjustment" /\ set_adjustment(x, a, "A")
         \/ last'.op = "lock_order" /\ lock_order(x, "A")
         \/ last'.op = "unlock_order" /\ unlock_order(x, "A")
         \/ last'.op = "cancel_order" /\ cancel_order(x, "A")
         \/ \E u \in Users : last'.op = "mark_paid" /\ mark_paid(x, u, NULL, now)
         \/ last'.op = "get_bill" /\ get_bill(x)
         \/ last'.op = "recalc_order" /\ recalc_order(x))
        => \A y \in DOMAIN orders \ {x} : OrderUntouched(y)]_vars

\* 'A' has just been marked paid on order 2 while order 1 holds an unpaid row
\* of 'B', who has no item in order 2
C24_Witness ==
    /\ last = Call("mark_paid", "ok")
    /\ <<2, "A">> \in DOMAIN participants
    /\ participants[<<2, "A">>].paid
    /\ Owners(line_items, 2) = {"A"}
    /\ <<1, "B">> \in DOMAIN participants
    /\ ~participants[<<1, "B">>].paid

\* C25: line items are append-only and orders are never deleted: every step
\* keeps each existing line item as it is (owner, unit price, quantity) at its
\* place and each existing order with its creator and payer, so the line items
\* of an order only grow; and a participant row of a non-cancelled order, once
\* created, is never purged
C25_AppendOnly ==
    [][/\ Len(line_items') >= Len(line_items)
       /\ \A i \in DOMAIN line_items : line_items'[i] = line_items[i]
       /\ Len(orders') >= Len(orders)
       /\ \A o \in DOMAIN orders :
            /\ orders'[o].creator_id = orders[o].creator_id
            /\ orders'[o].payer_id = orders[o].payer_id
       /\ \A key \in DOMAIN participants :
            orders[key[1]].status # "cancelled" => key \in DOMAIN participants']_vars

\* a second item has just been added to an order where the first item's owner
\* owes nothing after the adjustment
C25_Witness ==
    /\ last = Call("add_item", "ok")
    /\ Len(line_items) = 2
    /\ line_items[1].user_id = "A"
    /\ line_items[2].user_id = "B"
    /\ participants[<<1, "A">>].total_due = 0
    /\ participants[<<1, "B">>].total_due = 0

\* C26: unlock_order by the creator succeeds on a locked and on an open order
\* and leaves the status open, changing no line item and no participant row;
\* on the open order that results add_item and set_discount_percent with valid
\* arguments succeed
C26_UnlockReopens ==
    [][\A o \in DOMAIN orders :
        /\ (/\ orders[o].status \in {"open", "locked"}
            /\ last'.op = "unlock_order"
            /\ unlock_order(o, orders[o].creator_id))
           => /\ last'.res = "ok"
              /\ orders'[o] = [orders[o] EXCEPT !.status = "open"]
              /\ UNCHANGED <<line_items, participants>>
        /\ (last.op = "unlock_order" /\ last.res = "ok" /\ orders[o].status = "open") =>
              /\ \A u \in Users, up \in UnitPrices, q \in Qtys :
                    (q > 0 /\ up >= 0 /\ last'.op = "add_item" /\ add_item(o, u, up, q))
                    => last'.res = "ok"
              /\ \A p \in Percents :
                    (/\ 0 <= p[1] /\ p[1] <= p[2]
                     /\ last'.op = "set_discount_percent"
                     /\ set_discount_percent(o, p))
                    => last'.res = "ok"]_vars

\* unlock_order has just succeeded on an order that holds an item
C26_Witness ==
    /\ last = Call("unlock_order", "ok")
    /\ \E o \in DOMAIN orders :
          /\ orders[o].status = "open"
          /\ Owners(line_items, o) # {}

\* the step is a call of an operation with order id o
Addressed(o) ==
    \/ \E u \in Users, up \in UnitPrices, q \in Qtys :
            last'.op = "add_item" /\ add_item(o, u, up, q)
    \/ \E p \in Percents : last'.op = "set_discount_percent" /\ set_discount_percent(o, p)
    \/ \E a \in Adjustments, u \in Users :
            last'.op = "set_adjustment" /\ set_adjustment(o, a, u)
    \/ \E u \in Users : last'.op = "lock_order" /\ lock_order(o, u)
    \/ \E u \in Users : last'.op = "unlock_order" /\ unlock_order(o, u)
    \/ \E u \in Users : last'.op = "cancel_order" /\ cancel_order(o, u)
    \/ \E u \in Users, p \in PaidToArgs, t \in now..MaxTime :
            last'.op = "mark_paid" /\ mark_paid(o, u, p, t)
    \/ last'.op = "get_bill" /\ get_bill(o)
    \/ last'.op = "recalc_order" /\ recalc_order(o)

\* C27 as stated: every operation called with the id of an order that does not
\* exist fails with the order-not-found error and creates no order, line item
\* or participant row
C27_NotFoundAlways ==
    [][\A o \in OrderIds \ DOMAIN orders :
        Addressed(o) => /\ last'.res = "not_found"
                        /\ UNCHANGED <<orders, line_items, participants>>]_vars

\* C27 amended: every operation called with the id of an order that does not
\* exist fails and creates no order, line item or participant row; the error
\* is order-not-found, except that add_item with qty <= 0 or unit_price < 0 and
\* set_discount_percent with a percent outside [0,1] fail with the error of
\* their argument check, which comes first
C27_NotFound ==
    [][\A o \in OrderIds \ DOMAIN orders :
        /\ Addressed(o) => /\ last'.res # "ok"
                           /\ UNCHANGED <<orders, line_items, participants>>
        /\ (Addressed(o) /\ last'.op \notin {"add_item", "set_discount_percent"})
              => last'.res = "not_found"
        /\ \A u \in Users, up \in UnitPrices, q \in Qtys :
              (last'.op = "add_item" /\ add_item(o, u, up, q))
              => last'.res = (IF q <= 0 THEN "invalid_qty"
                              ELSE IF up < 0 THEN "invalid_price" ELSE "not_found")
        /\ \A p \in Percents :
              (last'.op = "set_discount_percent" /\ set_discount_percent(o, p))
              => last'.res = (IF 0 <= p[1] /\ p[1] <= p[2]
                              THEN "not_found" ELSE "invalid_percent")]_vars

\* lock_order has just been refused for an order id that does not exist, while
\* another order with an item exists
C27_Witness ==
    /\ last = Call("lock_order", "not_found")
    /\ Len(orders) < MaxOrders + 1
    /\ Owners(line_items, 1) # {}

\* C28: paid is monotonic: a participant row with paid = TRUE is still there
\* with paid = TRUE after every step, whatever the operation (an add_item for
\* that user, which raises total_due, included), so the order is not among the
\* details of the user's debt before or after the step
C28_PaidMonotonic ==
    [][\A key \in DOMAIN participants :
        participants[key].paid =>
            /\ key \in DOMAIN participants'
            /\ participants'[key].paid
            /\ key[1] \notin DebtOrders(orders, participants, key[2])
            /\ key[1] \notin DebtOrders(orders', participants', key[2])
            /\ \A i \in DOMAIN UserDebt(orders', participants', key[2]).details :
                  UserDebt(orders', participants', key[2]).details[i].order_id # key[1]]_vars

\* an item has just been added for a user who was marked paid when their total
\* was 5: the row is still paid and now carries 10
C28_Witness ==
    /\ last = Call("add_item", "ok")
    /\ \E key \in DOMAIN participants :
          /\ participants[key].paid
          /\ participants[key].total_due = 10
          /\ orders[key[1]].status = "open"
          /\ UserDebt(orders, participants, key[2]).total_debt = 0

\* C29: in every state a participant row has paid = TRUE if and only if its
\* paid_at and paid_to are both set, and an unpaid row has both NULL; a
\* mark_paid on a row that is already paid keeps paid = TRUE and replaces
\* paid_at and paid_to with the time and the receiver of the latest call
C29_PaidFieldsTogether ==
    [][/\ \A key \in DOMAIN participants' :
            LET row == participants'[key]
            IN  /\ row.paid <=> (row.paid_at # NULL /\ row.paid_to # NULL)
                /\ ~row.paid => (row.paid_at = NULL /\ row.paid_to = NULL)
       /\ \A key \in DOMAIN participants : \A p \in PaidToArgs, t \in now..MaxTime :
            (/\ participants[key].paid
             /\ last'.op = "mark_paid"
             /\ mark_paid(key[1], key[2], p, t))
            => /\ last'.res = "ok"
               /\ participants'[key].paid
               /\ participants'[key].paid_at = Some(t)
               /\ participants'[key].paid_to =
                    (IF p = NULL THEN Some(orders[key[1]].payer_id) ELSE p)]_vars

\* 'A' was marked paid to 'B' at time 0 and has just been marked paid again at
\* time 1 with no receiver given, so to the payer 'A'; 'B' is unpaid
C29_Witness ==
    /\ last = Call("mark_paid", "ok")
    /\ now = 1
    /\ orders[1].payer_id = "A"
    /\ <<1, "A">> \in DOMAIN participants
    /\ participants[<<1, "A">>].paid
    /\ participants[<<1, "A">>].paid_at = Some(1)
    /\ participants[<<1, "A">>].paid_to = Some("A")
    /\ <<1, "B">> \in DOMAIN participants
    /\ ~participants[<<1, "B">>].paid
    /\ participants[<<1, "B">>].paid_at = NULL

====
